---- MODULE Spec2Model ----
(***************************************************************************)
(* Model of the order-management API: the DatabaseService (snapshot        *)
(* import, initialization, single-row lookups) of                          *)
(* src/services/database.py and the FastAPI application (startup handler,  *)
(* API-key check, lookup endpoints) of src/api/main.py.                    *)
(*                                                                         *)
(* A table of the SQLite store is a record [exists, rows]; rows is the     *)
(* sequence of rows in storage order.  A snapshot file is a record         *)
(* [kind, rows] with kind "absent" (no such file), "malformed" (the file   *)
(* exists and pd.read_json raises on it) or "json" (a JSON array of flat   *)
(* objects, possibly empty).  A row is a record over the columns of its    *)
(* table that the lookups select on; every row of a snapshot carries them, *)
(* with values pd.read_json keeps as the strings they are.                 *)
(*                                                                         *)
(* last records the most recent call: its name, its arguments, what it     *)
(* raised or returned and the queries it executed.  phase, boot and        *)
(* api_keys_cache are the state of the running application.                *)
(*                                                                         *)
(* Spec is the service object called directly (import_from_json and the    *)
(* lookups in any order); AppSpec is the application, where initialize     *)
(* runs in the startup handler over every state of the data directory.     *)
(***************************************************************************)
EXTENDS Integers, Sequences, FiniteSets, TLC

VARIABLES store, last, phase, boot, api_keys_cache

vars == <<store, last, phase, boot, api_keys_cache>>

(***************************************************************************)
(* Bounds and value universes                                              *)
(***************************************************************************)
\* Most rows in one snapshot file, and most rows held by the whole store
\* in the specification of the service object.
MaxRows == 2

\* Column values occurring in snapshots; the empty string is a legal value.
Vals == {"", "v1"}

\* Lookup arguments.
Args == Vals

\* Python None passed for an optional string argument.
NoneArg == "<None>"

OptArgs == Args \cup {NoneArg}

\* Python truthiness of an Optional[str].
Truthy(s) == s # NoneArg /\ s # ""

\* Values of the X-API-Key header and contents of data/api_keys.json.
KeyHeaders == {"", "key1"}

ApiKeyFiles == {{}, {"key1"}}

(***************************************************************************)
(* Tables, rows, snapshot files                                            *)
(***************************************************************************)
tables == <<"customers", "orders", "transactions", "refunds">>

TableNames == {tables[i] : i \in 1..Len(tables)}

Row(t, a, b) ==
  CASE t = "customers"    -> [customer_id |-> a, email |-> b]
    [] t = "orders"       -> [order_no |-> a]
    [] t = "transactions" -> [transaction_id |-> a, order_no |-> b]
    [] t = "refunds"      -> [order_no |-> a]

Rows(t) == {Row(t, a, b) : a \in Vals, b \in Vals}

SeqsUpTo(S, n) == UNION {[1..k -> S] : k \in 0..n}

NoTable == [exists |-> FALSE, rows |-> <<>>]

AbsentFile == [kind |-> "absent", rows |-> <<>>]

MalformedFile == [kind |-> "malformed", rows |-> <<>>]

JsonFile(rows) == [kind |-> "json", rows |-> rows]

\* Every state of one snapshot file, by table.
Files ==
  [t \in TableNames |->
     {AbsentFile, MalformedFile} \cup {JsonFile(s) : s \in SeqsUpTo(Rows(t), MaxRows)}]

\* The snapshots the data directory of the application is drawn from: one
\* with a single row and one with two rows that share a key or carry an
\* empty one.
SampleSnapshots ==
  [t \in TableNames |-> {<<Row(t, "v1", "v1")>>, <<Row(t, "v1", ""), Row(t, "", "v1")>>}]

StartupFiles ==
  [t \in TableNames |->
     {AbsentFile, MalformedFile, JsonFile(<<>>)} \cup {JsonFile(s) : s \in SampleSnapshots[t]}]

\* The states of an existing data directory, and the one of a missing one.
StartupDirs ==
  {[customers |-> a, orders |-> b, transactions |-> c, refunds |-> d] :
     a \in StartupFiles["customers"], b \in StartupFiles["orders"],
     c \in StartupFiles["transactions"], d \in StartupFiles["refunds"]}

MissingDir == [t \in TableNames |-> AbsentFile]

TotalRows(st) ==
  Len(st["customers"].rows) + Len(st["orders"].rows)
    + Len(st["transactions"].rows) + Len(st["refunds"].rows)

\* Python None returned by a lookup, {} returned by an endpoint.
NoneVal == [none |-> TRUE]

EmptyDict == [dict |-> "{}"]

(***************************************************************************)
(* DatabaseService (src/services/database.py)                              *)
(***************************************************************************)
\* to_sql with if_exists='append': the frame is added to the rows present.
to_sql_append(tbl, df) == [exists |-> TRUE, rows |-> tbl.rows \o df]

\* df.to_sql(table_name, conn, if_exists='replace', index=False): the table
\* is dropped and re-created from the frame.
to_sql(tbl, df) == [exists |-> TRUE, rows |-> df]

\* import_from_json on one table: the exception raised ("none" when it
\* returns), the returned row count and the table afterwards.
import_from_json(tbl, file) ==
  IF file.kind = "absent"
    THEN [exc |-> "FileNotFoundError", rows_imported |-> 0, table |-> tbl]
  ELSE IF file.kind = "malformed"
    THEN [exc |-> "ValueError", rows_imported |-> 0, table |-> tbl]
  ELSE IF Len(file.rows) = 0
    THEN [exc |-> "none", rows_imported |-> 0, table |-> tbl]
  ELSE [exc |-> "none", rows_imported |-> Len(file.rows), table |-> to_sql(tbl, file.rows)]

\* The entry initialize stores in results for one table.
result_entry(t, r) ==
  IF r.exc = "none"
    THEN [table |-> t, status |-> "SUCCESS", rows_imported |-> r.rows_imported]
  ELSE IF r.exc = "FileNotFoundError"
    THEN [table |-> t, status |-> "SKIPPED"]
  ELSE [table |-> t, status |-> "ERROR"]

\* The loop of initialize leaving at the first table whose import raises.
RECURSIVE import_loop_aborts(_, _, _, _)
import_loop_aborts(i, st, dir, results) ==
  IF i > Len(tables) THEN [store |-> st, results |-> results]
  ELSE LET t == tables[i]
           r == import_from_json(st[t], dir[t])
       IN IF r.exc # "none"
            THEN [store |-> st, results |-> Append(results, result_entry(t, r))]
          ELSE import_loop_aborts(i + 1, [st EXCEPT ![t] = r.table], dir,
                                  Append(results, result_entry(t, r)))

\* The loop of initialize over the tables, from the i-th on.  results is the
\* dict in insertion order.
RECURSIVE import_loop(_, _, _, _)
import_loop(i, st, dir, results) ==
  IF i > Len(tables) THEN [store |-> st, results |-> results]
  ELSE LET t == tables[i]
           r == import_from_json(st[t], dir[t])
       IN import_loop(i + 1, [st EXCEPT ![t] = r.table], dir,
                      Append(results, result_entry(t, r)))

\* The body of initialize from the loop on.
import_all(st, dir) ==
  LET r == import_loop(1, st, dir, <<>>)
  IN [exc |-> "none", store |-> r.store, results |-> r.results]

\* initialize without the test of the data directory.
initialize_unchecked(st, dirExists, dir) == import_all(st, dir)

\* initialize(data_path): dirExists tells whether data_path exists, dir maps
\* each table to the state of <table>.json in it.
initialize(st, dirExists, dir) ==
  IF ~dirExists
    THEN [exc |-> "FileNotFoundError", store |-> st, results |-> <<>>]
  ELSE import_all(st, dir)

\* query with the WHERE clause dropped: LIMIT 1 keeps any row of the table.
query_unfiltered(st, table, column, param) ==
  IF ~st[table].exists THEN {[exc |-> "Exception", rows |-> <<>>]}
  ELSE LET rows == st[table].rows
       IN IF rows = <<>> THEN {[exc |-> "none", rows |-> <<>>]}
          ELSE {[exc |-> "none", rows |-> <<rows[i]>>] : i \in 1..Len(rows)}

\* query(sql, params) for "SELECT * FROM table WHERE column = ? LIMIT 1":
\* the set of possible outcomes.  A missing table makes read_sql_query raise,
\* which query re-raises as Exception.  Without ORDER BY the row LIMIT 1
\* keeps is any matching row.
query(st, table, column, param) ==
  IF ~st[table].exists THEN {[exc |-> "Exception", rows |-> <<>>]}
  ELSE LET rows == st[table].rows
           m == {i \in 1..Len(rows) : rows[i][column] = param}
       IN IF m = {} THEN {[exc |-> "none", rows |-> <<>>]}
          ELSE {[exc |-> "none", rows |-> <<rows[i]>>] : i \in m}

\* "results[0] if results else None" over the outcomes of one query.
first_or_none(st, table, column, param) ==
  {[exc |-> q.exc,
    ret |-> IF q.rows # <<>> THEN q.rows[1] ELSE NoneVal,
    queries |-> << <<table, column, param>> >>] : q \in query(st, table, column, param)}

find_order(st, order_no) == first_or_none(st, "orders", "order_no", order_no)

find_transaction(st, transaction_id) ==
  first_or_none(st, "transactions", "transaction_id", transaction_id)

get_transaction_for_order(st, order_no) ==
  first_or_none(st, "transactions", "order_no", order_no)

get_refund_for_order(st, order_no) == first_or_none(st, "refunds", "order_no", order_no)

\* find_customer preferring the email to the customer id.
find_customer_email_first(st, customer_id, email) ==
  IF ~Truthy(customer_id) /\ ~Truthy(email)
    THEN {[exc |-> "ValueError", ret |-> NoneVal, queries |-> <<>>]}
  ELSE IF Truthy(email)
    THEN first_or_none(st, "customers", "email", email)
  ELSE first_or_none(st, "customers", "customer_id", customer_id)

\* find_customer testing its arguments only after the query has run.
find_customer_late_check(st, customer_id, email) ==
  IF Truthy(customer_id)
    THEN first_or_none(st, "customers", "customer_id", customer_id)
  ELSE IF Truthy(email)
    THEN first_or_none(st, "customers", "email", email)
  ELSE {[exc |-> "ValueError", ret |-> NoneVal, queries |-> o.queries] :
          o \in first_or_none(st, "customers", "email", email)}

find_customer(st, customer_id, email) ==
  IF ~Truthy(customer_id) /\ ~Truthy(email)
    THEN {[exc |-> "ValueError", ret |-> NoneVal, queries |-> <<>>]}
  ELSE IF Truthy(customer_id)
    THEN first_or_none(st, "customers", "customer_id", customer_id)
  ELSE first_or_none(st, "customers", "email", email)

(***************************************************************************)
(* FastAPI application (src/api/main.py)                                   *)
(***************************************************************************)
NoKeys == [loaded |-> FALSE, keys |-> {}]

\* get_api_keys(): the cache, filled from data/api_keys.json on first use.
get_api_keys(cache, fileKeys) ==
  IF cache.loaded THEN cache ELSE [loaded |-> TRUE, keys |-> fileKeys]

\* verify_api_key: TRUE when the request passes, FALSE when it is answered 401.
verify_api_key(keys, x_api_key) == x_api_key # "" /\ x_api_key \in keys

Unauthorized == [status |-> 401, body |-> [detail |-> "Invalid or missing API key"], queries |-> <<>>]

\* The response an endpoint builds from one outcome of the service call.
respond(o, what) ==
  IF o.exc = "ValueError"
    THEN [status |-> 400, body |-> [detail |-> "Either customer_id or email must be provided"],
          queries |-> o.queries]
  ELSE IF o.exc # "none"
    THEN [status |-> 200, body |-> [error |-> "Could not find " \o what], queries |-> o.queries]
  ELSE IF o.ret # NoneVal
    THEN [status |-> 200, body |-> o.ret, queries |-> o.queries]
  ELSE [status |-> 200, body |-> EmptyDict, queries |-> o.queries]

EmptyResponse == [status |-> 200, body |-> EmptyDict, queries |-> <<>>]

\* GET /api/customer
api_find_customer(st, email, customer_id) ==
  IF ~Truthy(email) /\ ~Truthy(customer_id) THEN {EmptyResponse}
  ELSE {respond(o, "customer") :
          o \in find_customer(st, IF Truthy(customer_id) THEN customer_id ELSE NoneArg,
                                  IF Truthy(email) THEN email ELSE NoneArg)}

\* GET /api/order
api_find_order(st, order_no) ==
  IF ~Truthy(order_no) THEN {EmptyResponse}
  ELSE {respond(o, "order") : o \in find_order(st, order_no)}

\* GET /api/transaction
api_find_transaction(st, transaction_id) ==
  IF ~Truthy(transaction_id) THEN {EmptyResponse}
  ELSE {respond(o, "transaction") : o \in find_transaction(st, transaction_id)}

\* GET /api/transaction/order/{order_no}
api_get_transaction_for_order(st, order_no) ==
  IF ~Truthy(order_no) THEN {EmptyResponse}
  ELSE {respond(o, "transaction for order") : o \in get_transaction_for_order(st, order_no)}

\* GET /api/refund/order/{order_no}
api_get_refund_for_order(st, order_no) ==
  IF ~Truthy(order_no) THEN {EmptyResponse}
  ELSE {respond(o, "refund for order") : o \in get_refund_for_order(st, order_no)}

\* startup_event swallowing the exception instead of re-raising it.
startup_outcome_swallowed(exc) == "ready"

\* startup_event: the handler re-raises what initialize raised, so the
\* application starts only when initialize returned.
startup_outcome(exc) == IF exc = "none" THEN "ready" ELSE "failed"

(***************************************************************************)
(* State machine of the service object: import_from_json, initialize and   *)
(* the lookups called in any order on one DatabaseService.                 *)
(***************************************************************************)
NoCall == [op |-> "none"]

NotBooted == [exc |-> "pending", tables_done |-> 0]

Init ==
  /\ store = [t \in TableNames |-> NoTable]
  /\ last = NoCall
  /\ phase = "starting"
  /\ boot = NotBooted
  /\ api_keys_cache = NoKeys

AppUnchanged == UNCHANGED <<phase, boot, api_keys_cache>>

CallImportFromJson ==
  \E t \in TableNames : \E f \in Files[t] :
    LET r == import_from_json(store[t], f)
    IN /\ TotalRows(store) - Len(store[t].rows) + Len(r.table.rows) <= MaxRows
       /\ store' = [store EXCEPT ![t] = r.table]
       /\ last' = [op |-> "import_from_json", table |-> t, file |-> f, exc |-> r.exc,
                   rows_imported |-> r.rows_imported,
                   repeat |-> (last.op = "import_from_json" /\ last.table = t /\ last.file = f)]
       /\ AppUnchanged

ServiceLookup(op, arg, outcomes) ==
  \E o \in outcomes :
    /\ last' = [op |-> op, arg |-> arg, exc |-> o.exc, ret |-> o.ret, queries |-> o.queries]
    /\ UNCHANGED store
    /\ AppUnchanged

CallFindOrder ==
  \E a \in Args : ServiceLookup("find_order", a, find_order(store, a))

CallFindTransaction ==
  \E a \in Args : ServiceLookup("find_transaction", a, find_transaction(store, a))

CallGetTransactionForOrder ==
  \E a \in Args :
    ServiceLookup("get_transaction_for_order", a, get_transaction_for_order(store, a))

CallGetRefundForOrder ==
  \E a \in Args : ServiceLookup("get_refund_for_order", a, get_refund_for_order(store, a))

CallFindCustomer ==
  \E c \in OptArgs : \E e \in OptArgs : \E o \in find_customer(store, c, e) :
    /\ last' = [op |-> "find_customer", customer_id |-> c, email |-> e, exc |-> o.exc,
                ret |-> o.ret, queries |-> o.queries]
    /\ UNCHANGED store
    /\ AppUnchanged

Next ==
  \/ CallImportFromJson
  \/ CallFindOrder
  \/ CallFindTransaction
  \/ CallGetTransactionForOrder
  \/ CallGetRefundForOrder
  \/ CallFindCustomer

Spec == Init /\ [][Next]_vars

(***************************************************************************)
(* State machine of the application: the startup handler, the endpoints    *)
(* served once the application is ready, and a start of a new process on   *)
(* the database file the previous one left on disk.                        *)
(***************************************************************************)
Endpoints ==
  {"GET /api/customer", "GET /api/order", "GET /api/transaction",
   "GET /api/transaction/order", "GET /api/refund/order"}

startup_event ==
  /\ phase = "starting"
  /\ \E dirExists \in BOOLEAN :
       \E dir \in (IF dirExists THEN StartupDirs ELSE {MissingDir}) :
         \E fileKeys \in ApiKeyFiles :
           LET r == initialize(store, dirExists, dir)
           IN /\ store' = r.store
              /\ phase' = startup_outcome(r.exc)
              /\ boot' = [exc |-> r.exc, tables_done |-> Len(r.results)]
              /\ api_keys_cache' = IF r.exc = "none" THEN get_api_keys(api_keys_cache, fileKeys)
                                   ELSE api_keys_cache
              /\ last' = [op |-> "initialize", dirExists |-> dirExists, dir |-> dir,
                          exc |-> r.exc, results |-> r.results]

\* One request: the key check, then the endpoint.
Serve(op, responses, params, x_api_key) ==
  /\ phase = "ready"
  /\ \E fileKeys \in ApiKeyFiles :
       LET cache == get_api_keys(api_keys_cache, fileKeys)
       IN /\ api_keys_cache' = cache
          /\ \E resp \in (IF verify_api_key(cache.keys, x_api_key) THEN responses
                          ELSE {Unauthorized}) :
               last' = [op |-> op, params |-> params, x_api_key |-> x_api_key,
                        status |-> resp.status, body |-> resp.body, queries |-> resp.queries]
  /\ UNCHANGED <<store, phase, boot>>

GetCustomer ==
  \E email \in Args : \E customer_id \in Args : \E k \in KeyHeaders :
    Serve("GET /api/customer", api_find_customer(store, email, customer_id),
          <<email, customer_id>>, k)

GetOrder ==
  \E order_no \in Args : \E k \in KeyHeaders :
    Serve("GET /api/order", api_find_order(store, order_no), <<order_no>>, k)

GetTransaction ==
  \E transaction_id \in Args : \E k \in KeyHeaders :
    Serve("GET /api/transaction", api_find_transaction(store, transaction_id),
          <<transaction_id>>, k)

\* A path parameter is never empty.
GetTransactionForOrder ==
  \E order_no \in Args \ {""} : \E k \in KeyHeaders :
    Serve("GET /api/transaction/order", api_get_transaction_for_order(store, order_no),
          <<order_no>>, k)

GetRefundForOrder ==
  \E order_no \in Args \ {""} : \E k \in KeyHeaders :
    Serve("GET /api/refund/order", api_get_refund_for_order(store, order_no),
          <<order_no>>, k)

\* A new process: module state is fresh, the database file is the one on disk.
process_start ==
  /\ phase \in {"ready", "failed"}
  /\ phase' = "starting"
  /\ boot' = NotBooted
  /\ api_keys_cache' = NoKeys
  /\ last' = [op |-> "process_start"]
  /\ UNCHANGED store

AppNext ==
  \/ startup_event
  \/ GetCustomer
  \/ GetOrder
  \/ GetTransaction
  \/ GetTransactionForOrder
  \/ GetRefundForOrder
  \/ process_start

AppSpec == Init /\ [][AppNext]_vars

(***************************************************************************)
(* Properties                                                              *)
(***************************************************************************)
\* The rows of a table whose column equals v.
RowsWhere(st, table, column, v) ==
  {st[table].rows[i] : i \in {j \in 1..Len(st[table].rows) : st[table].rows[j][column] = v}}

\* What a single-row selection on column = v may give: the exception and the row.
Selected(st, table, column, v) ==
  IF ~st[table].exists THEN {[exc |-> "Exception", ret |-> NoneVal]}
  ELSE IF RowsWhere(st, table, column, v) = {} THEN {[exc |-> "none", ret |-> NoneVal]}
  ELSE {[exc |-> "none", ret |-> r] : r \in RowsWhere(st, table, column, v)}

Outcomes(S) == {[exc |-> o.exc, ret |-> o.ret] : o \in S}

LookupOps == {"find_order", "find_transaction", "get_transaction_for_order", "get_refund_for_order"}

\* C1: initialize on an existing data directory does not raise and reports
\* exactly the four tables in order; a table whose file is a JSON array is
\* SUCCESS with its row count (0 for an empty array), a table is SKIPPED
\* exactly when its file is absent, any other failure is ERROR, and a
\* non-empty snapshot is loaded whatever happened to the tables before it.
C1_InitializeReport ==
  (last.op = "initialize" /\ last.dirExists) =>
    /\ last.exc = "none"
    /\ Len(last.results) = 4
    /\ \A i \in 1..4 :
         LET t == tables[i]
             f == last.dir[t]
             e == last.results[i]
         IN /\ e.table = t
            /\ e.status \in {"SUCCESS", "SKIPPED", "ERROR"}
            /\ (f.kind = "json" => (e.status = "SUCCESS" /\ e.rows_imported = Len(f.rows)))
            /\ (e.status = "SKIPPED" <=> f.kind = "absent")
            /\ (f.kind = "malformed" => e.status = "ERROR")
            /\ ((f.kind = "json" /\ f.rows # <<>>) => store[t] = [exists |-> TRUE, rows |-> f.rows])

\* An initialize that skipped customers, failed on orders, loaded transactions
\* and found refunds empty.
C1_Witness ==
  /\ last.op = "initialize"
  /\ last.dirExists
  /\ last.dir["customers"].kind = "absent"
  /\ last.dir["orders"].kind = "malformed"
  /\ Len(last.dir["transactions"].rows) = 2
  /\ last.dir["refunds"] = JsonFile(<<>>)
  /\ last.results[3].status = "SUCCESS"
  /\ last.results[3].rows_imported = 2
  /\ last.results[4].status = "SUCCESS"
  /\ store["transactions"].rows = last.dir["transactions"].rows

\* C2: initialize on a data directory that does not exist raises
\* FileNotFoundError, attempts no import and leaves every table as it was.
C2_MissingDirectory ==
  [][(phase = "starting" /\ last'.op = "initialize" /\ ~last'.dirExists) =>
       (last'.exc = "FileNotFoundError" /\ last'.results = <<>> /\ store' = store)]_vars

\* A failed initialize over a store a previous run had loaded.
C2_Witness ==
  /\ last.op = "initialize"
  /\ ~last.dirExists
  /\ last.exc = "FileNotFoundError"
  /\ store["orders"].exists
  /\ store["refunds"].exists

\* C3: whenever import_from_json returns, the table holds exactly the rows of
\* the snapshot and none of an earlier import.
C3_ImportReplaces ==
  (last.op = "import_from_json" /\ last.exc = "none") =>
    store[last.table].rows = last.file.rows

\* C4: a lookup against a table that does not exist returns the absent
\* outcome and never an error.
C4_MissingTableAbsent ==
  (last.op \in LookupOps \cup {"find_customer"} /\ last.queries # <<>>
     /\ ~store[last.queries[1][1]].exists) =>
    (last.exc = "none" /\ last.ret = NoneVal)

\* C5: an authenticated GET /api/customer with neither email nor customer_id
\* is answered 400.
C5_NeitherParam400 ==
  (last.op = "GET /api/customer" /\ last.status # 401 /\ last.params = <<"", "">>) =>
    last.status = 400

\* C6: find_customer selects on customer_id alone when a non-empty
\* customer_id is given, whatever the email, and on email alone only when
\* customer_id is empty; with a customer_id its outcomes are those of the
\* call without an email.
C6_CustomerIdPriority ==
  /\ \A c \in OptArgs : \A e \in OptArgs :
       Truthy(c) => Outcomes(find_customer(store, c, e)) = Selected(store, "customers", "customer_id", c)
  /\ last.op = "find_customer" =>
       /\ Truthy(last.customer_id) =>
            /\ last.queries = << <<"customers", "customer_id", last.customer_id>> >>
            /\ [exc |-> last.exc, ret |-> last.ret]
                 \in Selected(store, "customers", "customer_id", last.customer_id)
       /\ (~Truthy(last.customer_id) /\ Truthy(last.email)) =>
            /\ last.queries = << <<"customers", "email", last.email>> >>
            /\ [exc |-> last.exc, ret |-> last.ret]
                 \in Selected(store, "customers", "email", last.email)

\* A call with both keys whose email is carried by another row than the one
\* returned.
C6_Witness ==
  /\ last.op = "find_customer"
  /\ last.customer_id = "v1"
  /\ last.email = "v1"
  /\ last.exc = "none"
  /\ last.ret # NoneVal
  /\ last.ret.customer_id = "v1"
  /\ last.ret.email # "v1"
  /\ RowsWhere(store, "customers", "email", "v1") # {}

\* C7: find_customer with both keys empty or missing raises ValueError, not
\* the absent result, and executes no query.
C7_NoKeyValueError ==
  (last.op = "find_customer" /\ ~Truthy(last.customer_id) /\ ~Truthy(last.email)) =>
    (last.exc = "ValueError" /\ last.queries = <<>>)

\* Such a call on a loaded customers table that has a row with an empty email.
C7_Witness ==
  /\ last.op = "find_customer"
  /\ last.customer_id = NoneArg
  /\ last.email = ""
  /\ last.exc = "ValueError"
  /\ RowsWhere(store, "customers", "email", "") # {}

LookupTable(op) ==
  CASE op = "find_order" -> "orders"
    [] op = "find_transaction" -> "transactions"
    [] op = "get_transaction_for_order" -> "transactions"
    [] op = "get_refund_for_order" -> "refunds"

LookupColumn(op) ==
  CASE op = "find_order" -> "order_no"
    [] op = "find_transaction" -> "transaction_id"
    [] op = "get_transaction_for_order" -> "order_no"
    [] op = "get_refund_for_order" -> "order_no"

\* The responses of the endpoint of a single-key lookup; the two endpoints
\* that take the key in the path never see an empty one.
EndpointResponses(op, st, arg) ==
  CASE op = "find_order" -> api_find_order(st, arg)
    [] op = "find_transaction" -> api_find_transaction(st, arg)
    [] op = "get_transaction_for_order" -> api_get_transaction_for_order(st, arg)
    [] op = "get_refund_for_order" -> api_get_refund_for_order(st, arg)

EndpointArgs(op) ==
  IF op \in {"get_transaction_for_order", "get_refund_for_order"} THEN Args \ {""} ELSE Args

\* C8 as stated: over a loaded table a single-key lookup, at the service and
\* at its endpoint, gives one row whose key equals the argument when there is
\* one and the absent result (None, {}) when there is none, never an error.
C8_AnyArgument ==
  /\ (last.op \in LookupOps /\ store[LookupTable(last.op)].exists) =>
       LET m == RowsWhere(store, LookupTable(last.op), LookupColumn(last.op), last.arg)
       IN /\ last.exc = "none"
          /\ (m = {} => last.ret = NoneVal)
          /\ (m # {} => last.ret \in m)
  /\ \A op \in LookupOps : \A arg \in EndpointArgs(op) :
       store[LookupTable(op)].exists =>
         LET m == RowsWhere(store, LookupTable(op), LookupColumn(op), arg)
         IN \A resp \in EndpointResponses(op, store, arg) :
              /\ resp.status = 200
              /\ (m = {} => resp.body = EmptyDict)
              /\ (m # {} => resp.body \in m)

\* C8, amended: a single-key lookup of the service over a loaded table
\* selects on its key column, raises nothing and returns one row of the table
\* whose key equals the argument when there is one, duplicates included, and
\* None when there is none; its endpoint answers 200 with {} when no row
\* matches and with one matching row when a row matches a non-empty
\* argument, and never with anything but {} or one matching row.
C8_SingleKeyLookup ==
  /\ (last.op \in LookupOps /\ store[LookupTable(last.op)].exists) =>
       LET m == RowsWhere(store, LookupTable(last.op), LookupColumn(last.op), last.arg)
       IN /\ last.exc = "none"
          /\ last.queries = << <<LookupTable(last.op), LookupColumn(last.op), last.arg>> >>
          /\ (m = {} => last.ret = NoneVal)
          /\ (m # {} => last.ret \in m)
  /\ \A op \in LookupOps : \A arg \in EndpointArgs(op) :
       store[LookupTable(op)].exists =>
         LET m == RowsWhere(store, LookupTable(op), LookupColumn(op), arg)
         IN \A resp \in EndpointResponses(op, store, arg) :
              /\ resp.status = 200
              /\ resp.body \in {EmptyDict} \cup m
              /\ (m = {} => resp.body = EmptyDict)
              /\ (Truthy(arg) /\ m # {} => resp.body \in m)

\* A lookup of the transaction of an order that two transactions carry.
C8_Witness ==
  /\ last.op = "get_transaction_for_order"
  /\ last.arg = "v1"
  /\ Cardinality(RowsWhere(store, "transactions", "order_no", "v1")) = 2
  /\ last.exc = "none"
  /\ last.ret \in RowsWhere(store, "transactions", "order_no", "v1")

\* C9: importing the same snapshot file into the same table a second time in
\* a row leaves the store as the first import left it.
C9_ImportIdempotent ==
  [][(last'.op = "import_from_json" /\ last'.repeat) => store' = store]_vars

\* A two-row snapshot imported twice in a row; the table holds two rows.
C9_Witness ==
  /\ last.op = "import_from_json"
  /\ last.repeat
  /\ last.exc = "none"
  /\ last.rows_imported = 2
  /\ Len(store[last.table].rows) = 2

\* C10: a request is served only when the startup initialization of this
\* process has run over all four tables, and after an initialization that
\* failed on the missing data directory the application is not ready and
\* has served nothing.
C10_InitializeThenServe ==
  /\ last.op \in Endpoints =>
       (phase = "ready" /\ boot.exc = "none" /\ boot.tables_done = 4)
  /\ phase = "ready" => (boot.exc = "none" /\ boot.tables_done = 4)
  /\ boot.exc \notin {"none", "pending"} => (phase = "failed" /\ last.op = "initialize")

\* A process whose startup failed on the missing directory, over a store an
\* earlier process had loaded and served from.
C10_Witness ==
  /\ phase = "failed"
  /\ boot.exc = "FileNotFoundError"
  /\ last.op = "initialize"
  /\ store["customers"].exists

====
